---- MODULE Spec2Model ----
(***************************************************************************)
(* Model of tompkins_triangle.py: the Tompkins Triangle command line tool. *)
(*                                                                         *)
(* One run of main() is a behaviour: build_tompkins_triangle (one step per *)
(* loop iteration), parse_highlight_multi, the automatic file name,        *)
(* render_triangle_png (one step per cell, then savefig and close) and the *)
(* final print.                                                            *)
(*                                                                         *)
(* Conventions.                                                            *)
(*  - A Python str is a sequence of one-character strings.                 *)
(*  - A Python list is a function on 0 .. len-1, so that the indices of    *)
(*    the model are those of the source.                                   *)
(*  - None is << >> and a value v that may be None is << v >>.             *)
(*  - A dict is the sequence of its << key, value >> items in insertion    *)
(*    order, keys unique.                                                  *)
(*  - The floating point layout (positions, canvas and font size, title)   *)
(*    decides no state that is recorded here and is left out; colours are  *)
(*    opaque strings that the drawing library accepts.                     *)
(***************************************************************************)
EXTENDS Integers, Sequences, FiniteSets, TLC

VARIABLES
    pc,               \* position of the run in main()
    k,                \* args.k
    n_max,            \* args.n
    highlight,        \* args.highlight (None or an int)
    arg_multi,        \* args.highlight_multi (None or a str)
    out,              \* args.out (None or a path)
    T,                \* the triangle under construction / returned
    c,                \* the derived constant
    n,                \* build loop: index of the row being built
    row,              \* build loop: the row being built
    r,                \* build loop: interior position being filled
    highlight_multi,  \* main's highlight_multi (None or a dict)
    out_path,         \* main's out_path
    fig,              \* the figure: "none", "open" or "closed"
    rn,               \* render loop: row index
    rr,               \* render loop: position in the row
    ax_patches,       \* patches added to the axes, in order
    ax_texts,         \* texts added to the axes, in order
    files,            \* paths of the image files written
    stdout,           \* lines printed
    err               \* the exception that ended the run, or << >>

vars == << pc, k, n_max, highlight, arg_multi, out, T, c, n, row, r,
           highlight_multi, out_path, fig, rn, rr, ax_patches, ax_texts,
           files, stdout, err >>

---------------------------------------------------------------------------
(* Bounds of the model.                                                    *)

MaxK == 5
MaxN == 4
MaxJ == 2
MaxLen == 6

---------------------------------------------------------------------------
(* Optional values, lists and dicts.                                       *)

None == << >>

Some(v) == << v >>

ListLen(L) == Cardinality(DOMAIN L)

ListAppend(L, x) ==
    [i \in 0 .. ListLen(L) |-> IF i < ListLen(L) THEN L[i] ELSE x]

DictKeys(d) == { d[i][1] : i \in 1 .. Len(d) }

DictGet(d, j) == d[CHOOSE i \in 1 .. Len(d) : d[i][1] = j][2]

\* result[j] = color
DictSet(d, j, v) ==
    IF j \in DictKeys(d)
    THEN [i \in 1 .. Len(d) |-> IF d[i][1] = j THEN << j, v >> ELSE d[i]]
    ELSE Append(d, << j, v >>)

---------------------------------------------------------------------------
(* Strings: str(int), int(str), str.split.                                 *)

Digits == << "0", "1", "2", "3", "4", "5", "6", "7", "8", "9" >>

RECURSIVE NatToStr(_)
NatToStr(i) ==
    IF i < 10 THEN << Digits[i + 1] >>
    ELSE NatToStr(i \div 10) \o << Digits[(i % 10) + 1] >>

\* str(i) and the f-string conversion {i} of an int
IntToStr(i) == IF i < 0 THEN << "-" >> \o NatToStr(-i) ELSE NatToStr(i)

IsDigit(ch) == \E d \in 1 .. 10 : Digits[d] = ch

DigitVal(ch) == (CHOOSE d \in 1 .. 10 : Digits[d] = ch) - 1

IsSpace(ch) == ch \in { " ", "\t", "\n", "\r" }

RECURSIVE LStrip(_)
LStrip(s) ==
    IF s # << >> /\ IsSpace(Head(s)) THEN LStrip(Tail(s)) ELSE s

RECURSIVE RStrip(_)
RStrip(s) ==
    IF s # << >> /\ IsSpace(s[Len(s)])
    THEN RStrip(SubSeq(s, 1, Len(s) - 1)) ELSE s

Unsigned(s) ==
    IF s # << >> /\ Head(s) \in { "+", "-" } THEN Tail(s) ELSE s

\* the digits of a literal: digits, single underscores between them
DigitsOk(s) ==
    /\ s # << >>
    /\ IsDigit(s[1])
    /\ IsDigit(s[Len(s)])
    /\ \A i \in 1 .. Len(s) : IsDigit(s[i]) \/ s[i] = "_"
    /\ \A i \in 1 .. Len(s) - 1 : ~(s[i] = "_" /\ s[i + 1] = "_")

RECURSIVE DigitsVal(_)
DigitsVal(s) ==
    IF s = << >> THEN 0
    ELSE IF s[Len(s)] = "_" THEN DigitsVal(SubSeq(s, 1, Len(s) - 1))
    ELSE 10 * DigitsVal(SubSeq(s, 1, Len(s) - 1)) + DigitVal(s[Len(s)])

\* int(jstr) does not raise ValueError
IntOk(s) == DigitsOk(Unsigned(RStrip(LStrip(s))))

\* int(jstr)
IntVal(s) ==
    LET t == RStrip(LStrip(s))
    IN  IF t # << >> /\ Head(t) = "-"
        THEN 0 - DigitsVal(Unsigned(t)) ELSE DigitsVal(Unsigned(t))

\* sep in s
Contains(s, sep) == \E i \in 1 .. Len(s) : s[i] = sep

IndexOf(s, sep) == CHOOSE i \in 1 .. Len(s) :
    s[i] = sep /\ \A h \in 1 .. i - 1 : s[h] # sep

LastIndexOf(s, sep) == CHOOSE i \in 1 .. Len(s) :
    s[i] = sep /\ \A h \in i + 1 .. Len(s) : s[h] # sep

\* s.split(sep)
RECURSIVE Split(_, _)
Split(s, sep) ==
    IF ~Contains(s, sep) THEN << s >>
    ELSE << SubSeq(s, 1, IndexOf(s, sep) - 1) >>
         \o Split(SubSeq(s, IndexOf(s, sep) + 1, Len(s)), sep)

RSplitOnce(s, sep) ==
    << SubSeq(s, 1, LastIndexOf(s, sep) - 1),
       SubSeq(s, LastIndexOf(s, sep) + 1, Len(s)) >>

\* s.split(sep, 1), for a string that holds sep
SplitOnce(s, sep) ==
    << SubSeq(s, 1, IndexOf(s, sep) - 1),
       SubSeq(s, IndexOf(s, sep) + 1, Len(s)) >>

---------------------------------------------------------------------------
(* parse_highlight_multi                                                   *)

RECURSIVE ParseParts(_, _)
ParseParts(parts, result) ==
    IF parts = << >> THEN result
    ELSE LET part == Head(parts)
         IN  IF ~Contains(part, ":") THEN ParseParts(Tail(parts), result)
             ELSE LET jstr  == SplitOnce(part, ":")[1]
                      color == SplitOnce(part, ":")[2]
                  IN  IF IntOk(jstr)
                      THEN ParseParts(Tail(parts),
                                      DictSet(result, IntVal(jstr), color))
                      ELSE ParseParts(Tail(parts), result)

parse_highlight_multi(arg) ==
    IF arg = << >> THEN << >> ELSE ParseParts(Split(arg, ","), << >>)

---------------------------------------------------------------------------
(* build_tompkins_triangle                                                 *)

PreconditionKOnly(kk, nn) == kk >= 3

\* assert k >= 3 and n_max >= 0
Precondition(kk, nn) == kk >= 3 /\ nn >= 0

DerivedOffByOne(kk) == kk - 1

\* c = k - 2
Derived(kk) == kk - 2

NewRowOnes(nn, cc) ==
    [i \in 0 .. nn |-> IF i = 0 THEN 1 ELSE IF i = nn THEN 1 ELSE 0]

\* row = [1] + [0]*(n-1) + [c]
NewRow(nn, cc) ==
    [i \in 0 .. nn |-> IF i = 0 THEN 1 ELSE IF i = nn THEN cc ELSE 0]

LoopContinuesExclusive(nn, nmax) == nn < nmax

\* for n in range(1, n_max + 1): another iteration follows
LoopContinues(nn, nmax) == nn <= nmax

InteriorSameColumn(TT, nn, rx) == TT[nn - 1][rx] + TT[nn - 1][rx]

\* T[n-1][r-1] + T[n-1][r]
Interior(TT, nn, rx) == TT[nn - 1][rx - 1] + TT[nn - 1][rx]

\* main calls build_tompkins_triangle(args.k, args.n): the assertion fails
BuildAssertFail ==
    /\ pc = "main"
    /\ ~Precondition(k, n_max)
    /\ pc' = "raised"
    /\ err' = Some("AssertionError")
    /\ UNCHANGED << k, n_max, highlight, arg_multi, out, T, c, n, row, r,
                    highlight_multi, out_path, fig, rn, rr, ax_patches,
                    ax_texts, files, stdout >>

\* c = k - 2; T = [[c]]; the loop starts at n = 1
BuildEnter ==
    /\ pc = "main"
    /\ Precondition(k, n_max)
    /\ c' = Derived(k)
    /\ T' = [i \in 0 .. 0 |-> [h \in 0 .. 0 |-> Derived(k)]]
    /\ n' = 1
    /\ pc' = "build_loop"
    /\ UNCHANGED << k, n_max, highlight, arg_multi, out, row, r,
                    highlight_multi, out_path, fig, rn, rr, ax_patches,
                    ax_texts, files, stdout, err >>

\* row = [1] + [0]*(n-1) + [c]; the inner loop starts at r = 1
RowInit ==
    /\ pc = "build_loop"
    /\ LoopContinues(n, n_max)
    /\ row' = NewRow(n, c)
    /\ r' = 1
    /\ pc' = "fill"
    /\ UNCHANGED << k, n_max, highlight, arg_multi, out, T, c, n,
                    highlight_multi, out_path, fig, rn, rr, ax_patches,
                    ax_texts, files, stdout, err >>

\* row[r] = T[n-1][r-1] + T[n-1][r]
RowFill ==
    /\ pc = "fill"
    /\ r < n
    /\ row' = [row EXCEPT ![r] = Interior(T, n, r)]
    /\ r' = r + 1
    /\ UNCHANGED << pc, k, n_max, highlight, arg_multi, out, T, c, n,
                    highlight_multi, out_path, fig, rn, rr, ax_patches,
                    ax_texts, files, stdout, err >>

\* T.append(row); next n
RowAppend ==
    /\ pc = "fill"
    /\ r >= n
    /\ T' = ListAppend(T, row)
    /\ n' = n + 1
    /\ pc' = "build_loop"
    /\ UNCHANGED << k, n_max, highlight, arg_multi, out, c, row, r,
                    highlight_multi, out_path, fig, rn, rr, ax_patches,
                    ax_texts, files, stdout, err >>

\* return T, c
BuildReturn ==
    /\ pc = "build_loop"
    /\ ~LoopContinues(n, n_max)
    /\ pc' = "built"
    /\ UNCHANGED << k, n_max, highlight, arg_multi, out, T, c, n, row, r,
                    highlight_multi, out_path, fig, rn, rr, ax_patches,
                    ax_texts, files, stdout, err >>

---------------------------------------------------------------------------
(* main: the highlight mapping and the output path                         *)

HighlightTruthy(h) == h # None /\ h[1] # 0

\* args.highlight is not None
HighlightGiven(h) == h # None

\* if highlight_multi: a dict that is not None and not empty
MultiTruthy(hm) == hm # None /\ hm[1] # << >>

\* fname of main: tompkins_T{k}_n{n}[_j{highlight}][_multi].png
AutoName(kk, nn, h, hm) ==
    << "t", "o", "m", "p", "k", "i", "n", "s", "_", "T" >> \o IntToStr(kk)
    \o << "_", "n" >> \o IntToStr(nn)
    \o (IF HighlightGiven(h) THEN << "_", "j" >> \o IntToStr(h[1])
        ELSE << >>)
    \o (IF MultiTruthy(hm) THEN << "_", "m", "u", "l", "t", "i" >>
        ELSE << >>)
    \o << ".", "p", "n", "g" >>

\* the working directory of the run
Cwd == << "/", "w" >>

\* out_path.resolve() of a path without links or dots
Resolve(p) ==
    IF p # << >> /\ Head(p) = "/" THEN p ELSE Cwd \o << "/" >> \o p

\* highlight_multi = parse_highlight_multi(a) if a else None
ParseArgs ==
    /\ pc = "built"
    /\ highlight_multi' =
          IF arg_multi # None /\ arg_multi[1] # << >>
          THEN Some(parse_highlight_multi(arg_multi[1])) ELSE None
    /\ pc' = "parsed"
    /\ UNCHANGED << k, n_max, highlight, arg_multi, out, T, c, n, row, r,
                    out_path, fig, rn, rr, ax_patches, ax_texts, files,
                    stdout, err >>

\* out_path = Path(fname) if args.out is None else args.out
NameOutput ==
    /\ pc = "parsed"
    /\ out_path' = IF out = None
                   THEN AutoName(k, n_max, highlight, highlight_multi)
                   ELSE out[1]
    /\ pc' = "named"
    /\ UNCHANGED << k, n_max, highlight, arg_multi, out, T, c, n, row, r,
                    highlight_multi, fig, rn, rr, ax_patches, ax_texts,
                    files, stdout, err >>

---------------------------------------------------------------------------
(* render_triangle_png                                                     *)

OnColumn(nn, rx, j) == nn >= j /\ rx = j

OnMirrorDiagonal(nn, rx, j) == nn >= j /\ rx = nn + j

\* (n >= j) and (r == n - j)
OnDiagonal(nn, rx, j) == nn >= j /\ rx = nn - j

Patch(style, nn, rx, color) ==
    [style |-> style, n |-> nn, r |-> rx, color |-> color]

\* the legacy circle of a cell: at most one, in the default stroke
SingleCircle(h, nn, rx) ==
    IF h # None /\ OnDiagonal(nn, rx, h[1])
    THEN << Patch("default", nn, rx, None) >> ELSE << >>

\* the coloured circles of a cell, in the order of the mapping's items
MultiCircles(hm, nn, rx) ==
    IF MultiTruthy(hm)
    THEN LET Match(item) == OnDiagonal(nn, rx, item[1])
             hits == SelectSeq(hm[1], Match)
         IN  [i \in 1 .. Len(hits) |->
                  Patch("color", nn, rx, Some(hits[i][2]))]
    ELSE << >>

\* fig, ax = plt.subplots(...): the figure exists from here on
RenderEnter ==
    /\ pc = "named"
    /\ fig' = "open"
    /\ rn' = 0
    /\ rr' = 0
    /\ pc' = "draw"
    /\ UNCHANGED << k, n_max, highlight, arg_multi, out, T, c, n, row, r,
                    highlight_multi, out_path, ax_patches, ax_texts, files,
                    stdout, err >>

\* the body of the loops for cell (rn, rr): box, text, circles
DrawCell ==
    /\ pc = "draw"
    /\ ax_patches' = ax_patches \o << Patch("box", rn, rr, None) >>
                         \o SingleCircle(highlight, rn, rr)
                         \o MultiCircles(highlight_multi, rn, rr)
    /\ ax_texts' = Append(ax_texts,
                          [n |-> rn, r |-> rr, s |-> IntToStr(T[rn][rr])])
    /\ IF rr + 1 < ListLen(T[rn])
       THEN rn' = rn /\ rr' = rr + 1 /\ pc' = "draw"
       ELSE /\ rn' = rn + 1
            /\ rr' = 0
            /\ pc' = IF rn + 1 < ListLen(T) THEN "draw" ELSE "save"
    /\ UNCHANGED << k, n_max, highlight, arg_multi, out, T, c, n, row, r,
                    highlight_multi, out_path, fig, files, stdout, err >>

\* fig.savefig(out_path, ...) writes the file
SaveOk ==
    /\ pc = "save"
    /\ files' = files \cup { out_path }
    /\ pc' = "saved"
    /\ UNCHANGED << k, n_max, highlight, arg_multi, out, T, c, n, row, r,
                    highlight_multi, out_path, fig, rn, rr, ax_patches,
                    ax_texts, stdout, err >>

\* fig.savefig(out_path, ...) raises: the path cannot be written
SaveFail ==
    /\ pc = "save"
    /\ err' = Some("OSError")
    /\ pc' = "raised"
    /\ UNCHANGED << k, n_max, highlight, arg_multi, out, T, c, n, row, r,
                    highlight_multi, out_path, fig, rn, rr, ax_patches,
                    ax_texts, files, stdout >>

\* plt.close(fig); render_triangle_png returns
CloseFig ==
    /\ pc = "saved"
    /\ fig' = "closed"
    /\ pc' = "rendered"
    /\ UNCHANGED << k, n_max, highlight, arg_multi, out, T, c, n, row, r,
                    highlight_multi, out_path, rn, rr, ax_patches, ax_texts,
                    files, stdout, err >>

\* print(f"Saved: {out_path.resolve()}")
PrintSaved ==
    /\ pc = "rendered"
    /\ stdout' = Append(stdout,
                        << "S", "a", "v", "e", "d", ":", " " >>
                            \o Resolve(out_path))
    /\ pc' = "done"
    /\ UNCHANGED << k, n_max, highlight, arg_multi, out, T, c, n, row, r,
                    highlight_multi, out_path, fig, rn, rr, ax_patches,
                    ax_texts, files, err >>

---------------------------------------------------------------------------
(* The command line of a run and the specification of main().              *)

\* --highlight-multi values: "", "x", "0:r", "0:r,x,2:b", "-1:r",
\* "1:r,1:b", "0:r,1:b,2:g", "-1:r,1:b"
MultiArgs ==
    { << >>,
      << "x" >>,
      << "0", ":", "r" >>,
      << "0", ":", "r", ",", "x", ",", "2", ":", "b" >>,
      << "-", "1", ":", "r" >>,
      << "1", ":", "r", ",", "1", ":", "b" >>,
      << "0", ":", "r", ",", "1", ":", "b", ",", "2", ":", "g" >>,
      << "-", "1", ":", "r", ",", "1", ":", "b" >> }

\* --out values: "o.png", "/o.png"
OutArgs ==
    { << "o", ".", "p", "n", "g" >>, << "/", "o", ".", "p", "n", "g" >> }

Init ==
    /\ pc = "main"
    /\ k \in 1 .. MaxK
    /\ n_max \in -1 .. MaxN
    /\ highlight \in { None } \cup { Some(j) : j \in -1 .. MaxJ }
    /\ arg_multi \in { None } \cup { Some(a) : a \in MultiArgs }
    /\ out \in { None } \cup { Some(p) : p \in OutArgs }
    /\ T = << >>
    /\ c = 0
    /\ n = 0
    /\ row = << >>
    /\ r = 0
    /\ highlight_multi = None
    /\ out_path = << >>
    /\ fig = "none"
    /\ rn = 0
    /\ rr = 0
    /\ ax_patches = << >>
    /\ ax_texts = << >>
    /\ files = { }
    /\ stdout = << >>
    /\ err = None

Next ==
    \/ BuildAssertFail
    \/ BuildEnter
    \/ RowInit
    \/ RowFill
    \/ RowAppend
    \/ BuildReturn
    \/ ParseArgs
    \/ NameOutput
    \/ RenderEnter
    \/ DrawCell
    \/ SaveOk
    \/ SaveFail
    \/ CloseFig
    \/ PrintSaved

Spec == Init /\ [][Next]_vars

---------------------------------------------------------------------------
(* parse_highlight_multi on its own: every string over ParseAlphabet of    *)
(* at most MaxLen characters, and the strings of ParseExamples.            *)

ParseAlphabet == { "0", "1", "-", ":", ",", "r" }

\* "0:red,bad,2:blue", "1:r,1:b", " 1 :r", "1_0:r,+1:b"
ParseExamples ==
    { << "0", ":", "r", "e", "d", ",", "b", "a", "d", ",",
         "2", ":", "b", "l", "u", "e" >>,
      << "1", ":", "r", ",", "1", ":", "b" >>,
      << " ", "1", " ", ":", "r" >>,
      << "1", "_", "0", ":", "r", ",", "+", "1", ":", "b" >> }

ParseInputs ==
    UNION { [1 .. len -> ParseAlphabet] : len \in 0 .. MaxLen }
        \cup ParseExamples

InitParse ==
    /\ pc = "parse_call"
    /\ k = 3
    /\ n_max = 0
    /\ highlight = None
    /\ arg_multi \in { Some(a) : a \in ParseInputs }
    /\ out = None
    /\ T = << >>
    /\ c = 0
    /\ n = 0
    /\ row = << >>
    /\ r = 0
    /\ highlight_multi = None
    /\ out_path = << >>
    /\ fig = "none"
    /\ rn = 0
    /\ rr = 0
    /\ ax_patches = << >>
    /\ ax_texts = << >>
    /\ files = { }
    /\ stdout = << >>
    /\ err = None

\* result = parse_highlight_multi(arg)
ParseCall ==
    /\ pc = "parse_call"
    /\ highlight_multi' = Some(parse_highlight_multi(arg_multi[1]))
    /\ pc' = "parse_returned"
    /\ UNCHANGED << k, n_max, highlight, arg_multi, out, T, c, n, row, r,
                    out_path, fig, rn, rr, ax_patches, ax_texts, files,
                    stdout, err >>

NextParse == ParseCall

SpecParse == InitParse /\ [][NextParse]_vars

---------------------------------------------------------------------------
(* Vocabulary of the properties.                                           *)

\* build_tompkins_triangle has returned its triangle to main
Returned == T # << >> /\ pc \notin { "main", "build_loop", "fill" }

\* the render loop has visited every cell
LoopDone == pc \in { "save", "saved", "rendered", "done" }
                \/ (pc = "raised" /\ fig # "none")

\* the render loop has finished the body for cell (nn, rx)
CellDrawn(nn, rx) ==
    \/ LoopDone
    \/ pc = "draw" /\ (nn < rn \/ (nn = rn /\ rx < rr))

Cells == UNION { { << nn, rx >> : rx \in 0 .. nn } : nn \in DOMAIN T }

\* the list with the elements of a sequence
ListOf(seq) == [i \in 0 .. Len(seq) - 1 |-> seq[i + 1]]

RECURSIVE Binom(_, _)
Binom(a, b) ==
    IF b < 0 \/ b > a THEN 0
    ELSE IF b = 0 \/ b = a THEN 1
    ELSE Binom(a - 1, b - 1) + Binom(a - 1, b)

RECURSIVE Pow2(_)
Pow2(e) == IF e = 0 THEN 1 ELSE 2 * Pow2(e - 1)

RECURSIVE SumTo(_, _)
SumTo(L, i) == IF i < 0 THEN 0 ELSE L[i] + SumTo(L, i - 1)

RowSum(L) == SumTo(L, ListLen(L) - 1)

---------------------------------------------------------------------------
(* The triangle builder.                                                   *)

\* C1: every interior cell of every row of the triangle is the sum of the
\* two cells above it, T[n][r] = T[n-1][r-1] + T[n-1][r] for 0 < r < n:
\* in the rows appended so far at every moment of the construction (no
\* appended row is altered later, no interior cell keeps its initial 0),
\* and in all rows 1 .. n_max of the triangle that is returned.
C1_Recurrence ==
    /\ \A nn \in DOMAIN T : \A rx \in 1 .. nn - 1 :
           T[nn][rx] = T[nn - 1][rx - 1] + T[nn - 1][rx]
    /\ Returned =>
           \A nn \in 1 .. n_max : \A rx \in 1 .. nn - 1 :
               /\ nn \in DOMAIN T
               /\ T[nn][rx] = T[nn - 1][rx - 1] + T[nn - 1][rx]
               /\ T[nn][rx] # 0

C1_Witness == pc = "built" /\ k = 4 /\ n_max >= 3 /\ T[3][2] = 5

\* C2: the builder returns c = k - 2; row 0 is exactly [k-2]; every row
\* n >= 1 starts with 1 and ends with k-2, and row 1 is exactly [1, k-2].
C2_Boundary ==
    Returned =>
        /\ c = k - 2
        /\ T[0] = ListOf(<< k - 2 >>)
        /\ \A nn \in 1 .. n_max :
               nn \in DOMAIN T /\ T[nn][0] = 1 /\ T[nn][nn] = k - 2
        /\ n_max >= 1 => T[1] = ListOf(<< 1, k - 2 >>)

C2_Witness == pc = "built" /\ k = 5 /\ n_max >= 2 /\ T[2][2] = 3

\* C3: after every iteration of the row loop the triangle holds one row
\* per index below n and row i has i + 1 elements; the triangle returned
\* has exactly n_max + 1 rows of lengths 1, 2, ..., n_max + 1.
C3_Shape ==
    /\ pc \in { "build_loop", "fill" } =>
           /\ DOMAIN T = 0 .. n - 1
           /\ \A i \in DOMAIN T : DOMAIN T[i] = 0 .. i
    /\ Returned =>
           /\ DOMAIN T = 0 .. n_max
           /\ ListLen(T) = n_max + 1
           /\ \A i \in DOMAIN T : DOMAIN T[i] = 0 .. i /\ ListLen(T[i]) = i + 1

C3_Witness == pc = "build_loop" /\ n = 3 /\ n_max >= 3 /\ ListLen(T) = 3

\* C4: with k < 3 or n_max < 0 the run fails in the builder before any
\* rendering: the only step is the failed assertion, no triangle is
\* returned, no figure is created, no file is written, nothing is printed.
C4_InvalidParameter ==
    (k < 3 \/ n_max < 0) =>
        /\ pc \in { "main", "raised" }
        /\ pc = "main" => (ENABLED BuildAssertFail) /\ ~(ENABLED BuildEnter)
        /\ pc = "raised" => err = Some("AssertionError")
        /\ T = << >>
        /\ fig = "none"
        /\ ax_patches = << >>
        /\ files = { }
        /\ stdout = << >>

C4_Witness ==
    pc = "raised" /\ k >= 3 /\ n_max < 0 /\ err = Some("AssertionError")

\* C10: the triangle returned has the closed form
\* T[n][r] = C(n-1, r) + (k-2) * C(n-1, r-1) for 1 <= n <= n_max; every
\* entry is >= 1; row n sums to (k-1) * 2^(n-1); for k = 3 it is Pascal's
\* triangle; k = 3, n_max = 2 gives [[1],[1,1],[1,2,1]] and k = 4,
\* n_max = 3 gives [2], [1,2], [1,3,2], [1,4,5,2].
C10_ClosedForm ==
    Returned =>
        /\ \A nn \in 1 .. n_max : \A rx \in 0 .. nn :
               T[nn][rx] = Binom(nn - 1, rx) + (k - 2) * Binom(nn - 1, rx - 1)
        /\ \A nn \in 0 .. n_max : \A rx \in 0 .. nn : T[nn][rx] >= 1
        /\ \A nn \in 1 .. n_max : RowSum(T[nn]) = (k - 1) * Pow2(nn - 1)
        /\ k = 3 => \A nn \in 0 .. n_max : \A rx \in 0 .. nn :
                        T[nn][rx] = Binom(nn, rx)
        /\ (k = 3 /\ n_max = 2) =>
               T = ListOf(<< ListOf(<< 1 >>), ListOf(<< 1, 1 >>),
                             ListOf(<< 1, 2, 1 >>) >>)
        /\ (k = 4 /\ n_max = 3) =>
               T = ListOf(<< ListOf(<< 2 >>), ListOf(<< 1, 2 >>),
                             ListOf(<< 1, 3, 2 >>),
                             ListOf(<< 1, 4, 5, 2 >>) >>)

C10_Witness == pc = "built" /\ k = 4 /\ n_max = 3 /\ RowSum(T[3]) = 12

---------------------------------------------------------------------------
(* The renderer.                                                           *)

\* the number of patches of a style drawn on cell (nn, rx)
CountAt(nn, rx, style) ==
    Cardinality({ i \in 1 .. Len(ax_patches) :
                      /\ ax_patches[i].style = style
                      /\ ax_patches[i].n = nn
                      /\ ax_patches[i].r = rx })

\* the patches drawn on cell (nn, rx), in drawing order
CellPatches(nn, rx) ==
    LET Here(p) == p.n = nn /\ p.r = rx
    IN  SelectSeq(ax_patches, Here)

IsCircle(p) == p.style \in { "default", "color" }

\* the keys of the multi-highlight mapping of the run
MultiKeys == IF highlight_multi = None THEN { }
             ELSE DictKeys(highlight_multi[1])

\* the keys of the mapping whose diagonal holds cell (nn, rx)
KeysAt(nn, rx) == { j \in MultiKeys : nn >= j /\ rx = nn - j }

\* 1 when the single highlight is given and its diagonal holds (nn, rx)
SingleAt(nn, rx) ==
    IF highlight # None /\ nn >= highlight[1] /\ rx = nn - highlight[1]
    THEN 1 ELSE 0

\* C5: every cell the render loop has finished carries one default circle
\* exactly when the single highlight j is given with n >= j and r = n - j,
\* and one circle in the mapped colour per key j' of the mapping with
\* n >= j' and r = n - j'; a cell not yet visited carries none. After the
\* loop the number of circles is the number of (diagonal, cell) pairs of
\* the membership predicate over all requested diagonals, overlaps
\* counted, and k = 5, n_max = 4, single highlight 1 without a mapping marks
\* exactly (1,0), (2,1), (3,2), (4,3).
C5_CircleCount ==
    fig # "none" =>
        /\ \A cell \in Cells :
               LET nn == cell[1]
                   rx == cell[2]
                   done == CellDrawn(nn, rx)
               IN  /\ CountAt(nn, rx, "default")
                          = IF done THEN SingleAt(nn, rx) ELSE 0
                   /\ CountAt(nn, rx, "color")
                          = IF done THEN Cardinality(KeysAt(nn, rx)) ELSE 0
                   /\ \A i \in 1 .. Len(ax_patches) :
                          (/\ ax_patches[i].style = "color"
                           /\ ax_patches[i].n = nn
                           /\ ax_patches[i].r = rx)
                          => \E j \in KeysAt(nn, rx) :
                                 ax_patches[i].color
                                     = Some(DictGet(highlight_multi[1], j))
        /\ \A i \in 1 .. Len(ax_patches) :
               << ax_patches[i].n, ax_patches[i].r >> \in Cells
        /\ LoopDone =>
               Len(SelectSeq(ax_patches, IsCircle))
                   = Cardinality(
                       { cell \in Cells : SingleAt(cell[1], cell[2]) = 1 })
                     + Cardinality(
                       { pair \in MultiKeys \X Cells :
                             pair[1] \in KeysAt(pair[2][1], pair[2][2]) })
        /\ (/\ LoopDone
            /\ k = 5 /\ n_max = 4
            /\ highlight = Some(1)
            /\ MultiKeys = { }) =>
               { cell \in Cells : CountAt(cell[1], cell[2], "default") > 0 }
                   = { << 1, 0 >>, << 2, 1 >>, << 3, 2 >>, << 4, 3 >> }

C5_Witness ==
    /\ pc = "save"
    /\ n_max >= 2
    /\ highlight = Some(1)
    /\ MultiKeys = { 0, 1, 2 }
    /\ CountAt(2, 1, "default") = 1
    /\ CountAt(2, 1, "color") = 1

\* C7: once render_triangle_png has returned or raised, a figure that was
\* created has been closed, also when writing the file failed.
C7_FigureReleased ==
    (fig # "none" /\ pc \in { "rendered", "done", "raised" })
        => fig = "closed"

\* a negative index is among the requested diagonals
HasNegative ==
    \/ highlight # None /\ highlight[1] < 0
    \/ \E j \in MultiKeys : j < 0

\* what cell (nn, rx) carries when only the indices >= 0 are requested
NonNegativePatches(nn, rx) ==
    LET NonNeg(item) == item[1] >= 0 /\ rx = nn - item[1]
        items == IF highlight_multi = None THEN << >>
                 ELSE SelectSeq(highlight_multi[1], NonNeg)
    IN  << [style |-> "box", n |-> nn, r |-> rx, color |-> None] >>
        \o (IF highlight # None /\ highlight[1] >= 0
                                /\ rx = nn - highlight[1]
            THEN << [style |-> "default", n |-> nn, r |-> rx,
                     color |-> None] >>
            ELSE << >>)
        \o [i \in 1 .. Len(items) |->
                [style |-> "color", n |-> nn, r |-> rx,
                 color |-> Some(items[i][2])]]

\* C9: a negative diagonal index, single or a key of the mapping, is
\* accepted (the key -1 of "-1:r" reaches the mapping), matches no cell
\* and raises nothing: every finished cell carries exactly the patches it
\* carries when only the non-negative indices are requested, each cell of
\* the loop can be drawn, and the only error of a valid run is the failed
\* write after the loop.
C9_NegativeNeverMatches ==
    HasNegative =>
        /\ \A cell \in Cells :
               CellDrawn(cell[1], cell[2]) =>
                   CellPatches(cell[1], cell[2])
                       = NonNegativePatches(cell[1], cell[2])
        /\ pc = "draw" => ENABLED DrawCell
        /\ (k >= 3 /\ n_max >= 0 /\ err # None) =>
               err = Some("OSError") /\ rn = ListLen(T)
        /\ (arg_multi = Some(<< "-", "1", ":", "r" >>)
                /\ highlight_multi # None) =>
               highlight_multi = Some(<< << -1, << "r" >> >> >>)

C9_Witness ==
    /\ pc = "done"
    /\ n_max >= 2
    /\ highlight = Some(-1)
    /\ MultiKeys = { -1, 1 }
    /\ Len(SelectSeq(ax_patches, IsCircle)) = n_max

---------------------------------------------------------------------------
(* The automatic file name.                                                *)

\* main has chosen out_path
Named == pc \in { "named", "draw", "save", "saved", "rendered", "done" }
             \/ (pc = "raised" /\ fig # "none")

\* tompkins_T<k>_n<n>[_j<h>][_multi].png
ExpectedName(multi) ==
    << "t", "o", "m", "p", "k", "i", "n", "s", "_", "T" >> \o IntToStr(k)
    \o << "_", "n" >> \o IntToStr(n_max)
    \o (IF highlight # None THEN << "_", "j" >> \o IntToStr(highlight[1])
        ELSE << >>)
    \o (IF multi THEN << "_", "m", "u", "l", "t", "i" >> ELSE << >>)
    \o << ".", "p", "n", "g" >>

\* the name, its file and the printed line, for a given reading of
\* "multi highlighting was requested"
AutoNamed(multi) ==
    (out = None /\ Named) =>
        /\ out_path = ExpectedName(multi)
        /\ pc \in { "saved", "rendered", "done" } => files = { out_path }
        /\ pc = "done" =>
               stdout = << << "S", "a", "v", "e", "d", ":", " " >>
                           \o Cwd \o << "/" >> \o ExpectedName(multi) >>

\* --highlight-multi was given a specification that is not empty
MultiRequested == arg_multi # None /\ arg_multi[1] # << >>

\* the --highlight-multi specification holds a well-formed entry
MultiParsed ==
    MultiRequested /\ parse_highlight_multi(arg_multi[1]) # << >>

\* C8 as stated: without --out the name is tompkins_T<k>_n<n>, then _j<h>
\* exactly when --highlight h was given, then _multi exactly when
\* --highlight-multi highlighting was requested, then .png; the image is
\* written to it and its absolute path is printed.
C8_AutoNameAsStated == AutoNamed(MultiRequested)

\* C8 amended: as above, with _multi exactly when the --highlight-multi
\* specification yields at least one well-formed entry; k = 3, n = 2
\* without highlights gives tompkins_T3_n2.png, --highlight 0 gives _j0.
C8_AutoName ==
    /\ AutoNamed(MultiParsed)
    /\ (out = None /\ Named /\ k = 3 /\ n_max = 2
            /\ highlight = None /\ arg_multi = None) =>
           out_path = << "t", "o", "m", "p", "k", "i", "n", "s", "_", "T",
                         "3", "_", "n", "2", ".", "p", "n", "g" >>
    /\ (out = None /\ Named /\ k = 5 /\ n_max = 4
            /\ highlight = Some(0) /\ arg_multi = Some(<< "0", ":", "r" >>))
           => out_path = << "t", "o", "m", "p", "k", "i", "n", "s", "_", "T",
                            "5", "_", "n", "4", "_", "j", "0",
                            "_", "m", "u", "l", "t", "i",
                            ".", "p", "n", "g" >>

C8_Witness ==
    /\ pc = "done"
    /\ out = None
    /\ highlight = Some(0)
    /\ arg_multi = Some(<< "x" >>)
    /\ Len(stdout) = 1

---------------------------------------------------------------------------
(* The multi-highlight parser.                                             *)

\* the entries of a specification: its maximal comma-free segments, each
\* given by the positions << a, b >> of its first and last character
\* (b = a - 1 for an empty entry)
Entries(s) ==
    { e \in (1 .. Len(s) + 1) \X (0 .. Len(s)) :
          /\ e[2] >= e[1] - 1
          /\ e[1] = 1 \/ s[e[1] - 1] = ","
          /\ e[2] = Len(s) \/ s[e[2] + 1] = ","
          /\ \A i \in e[1] .. e[2] : s[i] # "," }

\* the position of the first ':' of an entry that holds one
FirstColon(s, e) ==
    CHOOSE q \in e[1] .. e[2] :
        s[q] = ":" /\ \A i \in e[1] .. q - 1 : s[i] # ":"

\* the entry has a ':' and an integer before its first ':'
WellFormed(s, e) ==
    /\ \E q \in e[1] .. e[2] : s[q] = ":"
    /\ IntOk(SubSeq(s, e[1], FirstColon(s, e) - 1))

EntryKey(s, e) == IntVal(SubSeq(s, e[1], FirstColon(s, e) - 1))

EntryColor(s, e) == SubSeq(s, FirstColon(s, e) + 1, e[2])

WellFormedEntries(s) == { e \in Entries(s) : WellFormed(s, e) }

\* the last well-formed entry of s for diagonal j
LastEntry(s, j) ==
    CHOOSE e \in WellFormedEntries(s) :
        /\ EntryKey(s, e) = j
        /\ \A f \in WellFormedEntries(s) :
               EntryKey(s, f) = j => f[1] <= e[1]

\* "0:red,bad,2:blue"
SpecExample ==
    << "0", ":", "r", "e", "d", ",", "b", "a", "d", ",",
       "2", ":", "b", "l", "u", "e" >>

\* the keys of the mapping returned are the diagonals of the well-formed
\* entries, each once; malformed entries leave no trace
ParsedKeys(s, result) ==
    /\ DictKeys(result) = { EntryKey(s, e) : e \in WellFormedEntries(s) }
    /\ Cardinality(DictKeys(result)) = Len(result)
    /\ s = SpecExample =>
           result = << << 0, << "r", "e", "d" >> >>,
                       << 2, << "b", "l", "u", "e" >> >> >>

\* C6 as stated: the parse returns, and the mapping holds exactly the
\* well-formed entries: every entry with a ':' and an integer before its
\* first ':' is in it as diagonal -> colour, nothing else is.
C6_ParseAsStated ==
    pc = "parse_returned" =>
        LET s == arg_multi[1]
            result == highlight_multi[1]
        IN  /\ ParsedKeys(s, result)
            /\ \A e \in WellFormedEntries(s) :
                   DictGet(result, EntryKey(s, e)) = EntryColor(s, e)

\* C6 amended: the parse returns, and the mapping holds one item per
\* diagonal named by a well-formed entry, with the colour of the last
\* well-formed entry for that diagonal; malformed entries are skipped
\* without effect on the entries around them.
C6_Parse ==
    pc = "parse_returned" =>
        LET s == arg_multi[1]
            result == highlight_multi[1]
        IN  /\ ParsedKeys(s, result)
            /\ \A j \in DictKeys(result) :
                   DictGet(result, j) = EntryColor(s, LastEntry(s, j))

C6_Witness ==
    /\ pc = "parse_returned"
    /\ arg_multi = Some(SpecExample)
    /\ DictKeys(highlight_multi[1]) = { 0, 2 }

====
